---- MODULE Spec2Model ----
(***************************************************************************)
(* A model of fwerkor/composer: the event codec as the command line and    *)
(* the MusicRNN dataset loader use it (src/composer/cli.py,                *)
(* src/composer/models/music_rnn.py), the windowing extractor, the         *)
(* preprocess command, ModelType.get_dataset, the dataset generator and    *)
(* the generate command.                                                   *)
(*                                                                         *)
(* composer.dataset.sequence and composer.dataset.preprocess are not part  *)
(* of the sources at hand; their operations are modelled from spec.md and  *)
(* are marked "spec.md" below.                                             *)
(***************************************************************************)
EXTENDS Integers, Sequences, FiniteSets, TLC

VARIABLES
    \* ---- event codec (one Event under one configuration) ----
    codec_pc,            \* position in the encode / decode sequence
    config,              \* config.dataset: time_step_increment, max_time_steps, velocity_bins
    event_value_ranges,  \* result of get_event_sequence_ranges(config)[0]
    event_dimensions,    \* result of get_event_sequence_ranges(config)[1]
    event_ranges,        \* result of get_event_sequence_ranges(config)[2]
    event,               \* the Event being encoded
    event_id,            \* _encode_event_as_int(event, event_ranges)
    id_event,            \* id_to_event(event_id, ...)
    one_hot,             \* event_as_one_hot_vector(event, ...)
    one_hot_event,       \* one_hot_vector_as_event(one_hot, ...)
    \* ---- create_music_rnn_dataset (one call) ----
    ds_pc,               \* position in create_music_rnn_dataset
    filepaths,           \* the files, each the integer-id stream stored in it
    window_size,         \* window_size
    use_generator,       \* use_generator
    output_event_dimensions, \* one-hot size read from filepaths[0]
    data,                \* eager mode: one list of (x, y) tuples per loaded file
    dataset,             \* generator mode: the tf.data.Dataset object
    returned,            \* the value handed back to the caller
    \* ---- composer [--seed N] preprocess ... (one run) ----
    pp_pc,               \* position in cli / preprocess
    seed_option,         \* --seed: <<>> when absent, <<n>> when given
    seed,                \* the local variable seed of cli
    random_state,        \* the state of numpy's global random generator
    args,                \* the options of preprocess
    input_files,         \* number of raw files under dataset_path (files 1..n in path order)
    tasks,               \* the conversions handed to the worker pool, in order
    next_task,           \* index of the next conversion to hand out
    workers,             \* worker -> index of the conversion it is running (0: idle)
    outputs,             \* indices of the conversions whose output file is written
    metadata,            \* the contents of metadata.json
    config_copy,         \* whether output_directory/config.yml exists
    \* ---- ModelType.get_dataset (one call) ----
    gd_pc,               \* position in get_dataset
    mode,                \* mode
    dataset_path,        \* the dataset directory: its train and test subfolders
    max_files,           \* max_files: <<>> for None, <<m>> for the integer m
    gd_use_generator,    \* use_generator
    gd_files,            \* the local variable files
    fs_log,              \* the accesses made to the dataset directory, in order
    gd_error,            \* the exception get_dataset raised, None if none
    gd_returned,         \* the value get_dataset returned
    \* ---- _generator(filepaths, window_size), iterated by the dataset ----
    it_pc,               \* position in _generator
    it_file,             \* index in filepaths of the file the outer loop is at
    it_chunk,            \* number of tuples the inner loop has yielded from that file
    yielded,             \* the tuples yielded in the current pass, in order
    passes,              \* number of completed passes
    first_pass,          \* the tuples of the first completed pass
    \* ---- composer generate (one run) ----
    gn_pc,               \* position in generate
    gn_config,           \* config: model.window_size and the dataset section
    model,               \* the MusicRNN made by create_model
    gn_dimensions,       \* the dimensions returned by create_model
    prompt,              \* --prompt: the events of the MIDI file, or not given
    prompt_length,       \* --prompt-length
    generate_length,     \* --length
    gn_events,           \* event_sequence.events
    vector_size,         \* vector_size
    gn_i,                \* number of completed iterations of the loop
    decode_arg,          \* the last vector handed to _decode, with the id sampled for it
    gn_output            \* the events written to output_filepath

codec_vars == <<codec_pc, config, event_value_ranges, event_dimensions, event_ranges,
                event, event_id, id_event, one_hot, one_hot_event>>

ds_vars == <<ds_pc, filepaths, window_size, use_generator, output_event_dimensions,
             data, dataset, returned>>

pp_vars == <<pp_pc, seed_option, seed, random_state, args, input_files, tasks, next_task,
             workers, outputs, metadata, config_copy>>

gd_vars == <<gd_pc, mode, dataset_path, max_files, gd_use_generator, gd_files, fs_log,
             gd_error, gd_returned>>

it_vars == <<it_pc, it_file, it_chunk, yielded, passes, first_pass>>

gn_vars == <<gn_pc, gn_config, model, gn_dimensions, prompt, prompt_length, generate_length,
             gn_events, vector_size, gn_i, decode_arg, gn_output>>

vars == <<codec_vars, ds_vars, pp_vars, gd_vars, it_vars, gn_vars>>

None == "None"

(***************************************************************************)
(* Bounds of the model.                                                    *)
(***************************************************************************)
MaxTimeSteps == 2
MaxVelocityBins == 2
MaxFiles == 2
MaxStreamLength == 6
MaxWindowSize == 3
MaxInputFiles == 2
MaxSeed == 1
RngModulus == 3

(***************************************************************************)
(* Event vocabulary (spec.md 3, 4.1).                                      *)
(***************************************************************************)
\* The kinds in their canonical order.
EventTypes == <<"NOTE_ON", "NOTE_OFF", "TIME_SHIFT", "VELOCITY_CHANGE">>

EventTypeSet == {EventTypes[i] : i \in 1..Len(EventTypes)}

\* Number of MIDI pitches (spec.md 3: pitch 0-127, 128 ids for NOTE_ON / NOTE_OFF).
PitchCount == 128

\* spec.md 4.1: a configuration is valid when no parameter is non-positive and
\* time_step_increment <= max_time_steps.
ValidConfig(c) ==
    /\ c.time_step_increment >= 1
    /\ c.max_time_steps >= 1
    /\ c.velocity_bins >= 1
    /\ c.time_step_increment <= c.max_time_steps

Configs ==
    {c \in [time_step_increment : 1..MaxTimeSteps,
            max_time_steps : 1..MaxTimeSteps,
            velocity_bins : 1..MaxVelocityBins] : ValidConfig(c)}

\* EventSequence._compute_event_value_ranges: kind -> <<min, max>> raw bounds.
_compute_event_value_ranges(time_step_increment, max_time_steps, velocity_bins) ==
    [k \in EventTypeSet |->
        CASE k = "NOTE_ON" -> <<0, PitchCount - 1>>
          [] k = "NOTE_OFF" -> <<0, PitchCount - 1>>
          [] k = "TIME_SHIFT" -> <<1, max_time_steps>>
          [] k = "VELOCITY_CHANGE" -> <<0, velocity_bins - 1>>]

\* EventSequence._compute_event_dimensions: the number of discrete values of a kind.
_compute_event_dimensions(value_ranges) ==
    [k \in EventTypeSet |-> value_ranges[k][2] - value_ranges[k][1] + 1]

\* Sum of the dimensions of the first n kinds of the canonical order.
RECURSIVE DimensionsBefore(_, _)
DimensionsBefore(dimensions, n) ==
    IF n = 0 THEN 0
    ELSE DimensionsBefore(dimensions, n - 1) + dimensions[EventTypes[n]]

\* EventSequence._compute_event_ranges: kind -> half-open interval [start, end),
\* each kind's slice laid out after the slices of the kinds before it.
_compute_event_ranges(dimensions) ==
    [k \in EventTypeSet |->
        LET n == CHOOSE i \in 1..Len(EventTypes) : EventTypes[i] = k
        IN  [start |-> DimensionsBefore(dimensions, n - 1),
             end   |-> DimensionsBefore(dimensions, n - 1) + dimensions[k]]]

\* A wrong cli.get_event_sequence_ranges: the ranges are laid out from the
\* upper value bounds instead of the dimensions.
get_event_sequence_ranges_from_bounds(c) ==
    LET value_ranges == _compute_event_value_ranges(c.time_step_increment,
                            c.max_time_steps, c.velocity_bins)
        dimensions == _compute_event_dimensions(value_ranges)
        ranges == _compute_event_ranges([k \in EventTypeSet |-> value_ranges[k][2]])
    IN  <<value_ranges, dimensions, ranges>>

\* cli.get_event_sequence_ranges
get_event_sequence_ranges(c) ==
    LET value_ranges == _compute_event_value_ranges(c.time_step_increment,
                            c.max_time_steps, c.velocity_bins)
        dimensions == _compute_event_dimensions(value_ranges)
        ranges == _compute_event_ranges(dimensions)
    IN  <<value_ranges, dimensions, ranges>>

\* OneHotEncodedEventSequence.get_one_hot_size: the width of a one-hot vector,
\* the end of the last interval.
get_one_hot_size(ranges) == ranges[EventTypes[Len(EventTypes)]].end

\* cli.get_model_event_dimensions
get_model_event_dimensions(c) ==
    get_one_hot_size(get_event_sequence_ranges(c)[3])

(***************************************************************************)
(* Event codec (spec.md 4.3; music_rnn.py 167-173).                        *)
(***************************************************************************)
\* An Event is a record with a type and an optional value: an Event whose value
\* is None has no value field.
HasValue(e) == "value" \in DOMAIN e

\* The dimensions of a configuration, straight from its three scalars.
DimensionsOf(c) ==
    _compute_event_dimensions(_compute_event_value_ranges(c.time_step_increment,
        c.max_time_steps, c.velocity_bins))

\* spec.md 3: 0 <= value < bin_count(kind) whenever value is present.
ValidEvent(e, dimensions) ==
    /\ HasValue(e)
    /\ 0 <= e.value
    /\ e.value < dimensions[e.type]

\* The Events handed to the codec under a configuration: for every kind the
\* valid values, the two values one step outside the kind's bins, and no value.
InputEvents(c) ==
    UNION {{[type |-> k, value |-> v] : v \in (-1)..DimensionsOf(c)[k]} \cup {[type |-> k]} :
              k \in EventTypeSet}

\* Python's (event.value or 0).
ValueOrZero(e) == IF HasValue(e) THEN e.value ELSE 0

\* A wrong _encode_event_as_int: the offset is added to the end of the interval.
_encode_event_as_int_from_end(e, ranges) == ranges[e.type].end + ValueOrZero(e)

\* music_rnn.py _encode_event_as_int
_encode_event_as_int(e, ranges) == ranges[e.type].start + ValueOrZero(e)

Raised(name) == [error |-> name]

IsRaised(r) == "error" \in DOMAIN r

\* spec.md 4.3 event_to_id: the id, or EncodingError when the value would place
\* the id outside ranges[event.kind].
event_to_id(e, ranges) ==
    LET id == ranges[e.type].start + ValueOrZero(e)
    IN  IF ranges[e.type].start <= id /\ id < ranges[e.type].end
        THEN [id |-> id]
        ELSE Raised("EncodingError")

\* spec.md 4.3 id_to_event: linear search over the canonical order.
id_to_event(id, ranges, value_ranges) ==
    IF id < 0 \/ id >= get_one_hot_size(ranges)
    THEN Raised("DecodingError")
    ELSE LET n == CHOOSE i \in 1..Len(EventTypes) :
                      /\ ranges[EventTypes[i]].start <= id
                      /\ id < ranges[EventTypes[i]].end
                      /\ \A j \in 1..(i - 1) :
                            ~(ranges[EventTypes[j]].start <= id /\ id < ranges[EventTypes[j]].end)
             k == EventTypes[n]
         IN  [type |-> k, value |-> id - ranges[k].start]

\* spec.md 4.3 event_to_one_hot: all zero except index event_to_id(...).
event_as_one_hot_vector(e, ranges, value_ranges) ==
    LET r == event_to_id(e, ranges)
    IN  IF IsRaised(r) THEN r
        ELSE [vector |-> [i \in 1..get_one_hot_size(ranges) |-> IF i = r.id + 1 THEN 1 ELSE 0]]

\* numpy argmax: the 0-based index of the first maximum of a non-empty vector.
argmax(v) ==
    LET values == {v[i] : i \in 1..Len(v)}
        largest == CHOOSE x \in values : \A y \in values : y <= x
        at == {i \in 1..Len(v) : v[i] = largest}
    IN  (CHOOSE i \in at : \A j \in at : i <= j) - 1

\* spec.md 4.3 one_hot_to_event: id = argmax(vector), then id_to_event.
one_hot_vector_as_event(v, ranges, value_ranges) ==
    id_to_event(argmax(v), ranges, value_ranges)

\* A one-hot vector of the given width: one coordinate 1, all others 0.
IsOneHot(v, width) ==
    /\ Len(v) = width
    /\ \A i \in 1..width : v[i] \in {0, 1}
    /\ Cardinality({i \in 1..width : v[i] = 1}) = 1

(***************************************************************************)
(* Values of the variables of a component that is not running.             *)
(***************************************************************************)
NoDataset == [kind |-> None]

DatasetIdle ==
    /\ ds_pc = "idle"
    /\ filepaths = <<>>
    /\ window_size = 1
    /\ use_generator = FALSE
    /\ output_event_dimensions = 0
    /\ data = <<>>
    /\ dataset = NoDataset
    /\ returned = NoDataset

NoMetadata == [seed |-> None]

NoArgs == [config_filepath |-> None]

PreprocessIdle ==
    /\ pp_pc = "idle"
    /\ seed_option = <<>>
    /\ seed = 0
    /\ random_state = 0
    /\ args = NoArgs
    /\ input_files = 0
    /\ tasks = <<>>
    /\ next_task = 1
    /\ workers = <<>>
    /\ outputs = {}
    /\ metadata = NoMetadata
    /\ config_copy = FALSE

GetDatasetIdle ==
    /\ gd_pc = "idle"
    /\ mode = None
    /\ dataset_path = <<>>
    /\ max_files = <<>>
    /\ gd_use_generator = FALSE
    /\ gd_files = <<>>
    /\ fs_log = <<>>
    /\ gd_error = None
    /\ gd_returned = NoDataset

IterationIdle ==
    /\ it_pc = "idle"
    /\ it_file = 0
    /\ it_chunk = 0
    /\ yielded = <<>>
    /\ passes = 0
    /\ first_pass = <<>>

NoModel == [kind |-> None]

NoPrompt == [given |-> FALSE, events |-> <<>>]

NoDecode == [called |-> FALSE]

NotWritten == [written |-> FALSE]

GenerateIdle ==
    /\ gn_pc = "idle"
    /\ gn_config = [window_size |-> 0]
    /\ model = NoModel
    /\ gn_dimensions = 0
    /\ prompt = NoPrompt
    /\ prompt_length = 0
    /\ generate_length = 0
    /\ gn_events = <<>>
    /\ vector_size = 0
    /\ gn_i = 0
    /\ decode_arg = NoDecode
    /\ gn_output = NotWritten

(***************************************************************************)
(* The codec applied to one Event: ranges, integer id, one-hot vector.     *)
(***************************************************************************)
NoEvent == [type |-> None]

InitCodec ==
    /\ codec_pc = "start"
    /\ config \in Configs
    /\ event \in InputEvents(config)
    /\ event_value_ranges = <<>>
    /\ event_dimensions = <<>>
    /\ event_ranges = <<>>
    /\ event_id = 0
    /\ id_event = NoEvent
    /\ one_hot = <<>>
    /\ one_hot_event = NoEvent
    /\ DatasetIdle
    /\ PreprocessIdle
    /\ GetDatasetIdle
    /\ IterationIdle
    /\ GenerateIdle

\* cli.py 119-124: the three mappings of the configuration.
ComputeRanges ==
    /\ codec_pc = "start"
    /\ LET r == get_event_sequence_ranges(config)
       IN  /\ event_value_ranges' = r[1]
           /\ event_dimensions' = r[2]
           /\ event_ranges' = r[3]
    /\ codec_pc' = "ranges"
    /\ UNCHANGED <<ds_vars, pp_vars, gd_vars, it_vars, gn_vars>>
    /\ UNCHANGED <<config, event, event_id, id_event, one_hot, one_hot_event>>

\* music_rnn.py 173: the integer id of the Event.
EncodeAsInt ==
    /\ codec_pc = "ranges"
    /\ event_id' = _encode_event_as_int(event, event_ranges)
    /\ codec_pc' = "encoded"
    /\ UNCHANGED <<ds_vars, pp_vars, gd_vars, it_vars, gn_vars>>
    /\ UNCHANGED <<config, event_value_ranges, event_dimensions, event_ranges,
                   event, id_event, one_hot, one_hot_event>>

\* music_rnn.py 203: the id decoded back to an Event.
DecodeId ==
    /\ codec_pc = "encoded"
    /\ id_event' = id_to_event(event_id, event_ranges, event_value_ranges)
    /\ codec_pc' = "decoded"
    /\ UNCHANGED <<ds_vars, pp_vars, gd_vars, it_vars, gn_vars>>
    /\ UNCHANGED <<config, event_value_ranges, event_dimensions, event_ranges,
                   event, event_id, one_hot, one_hot_event>>

\* cli.py 529-531 (_encode): the Event as a one-hot vector.
EncodeOneHot ==
    /\ codec_pc = "decoded"
    /\ LET r == event_as_one_hot_vector(event, event_ranges, event_value_ranges)
       IN  IF IsRaised(r)
           THEN /\ codec_pc' = r.error
                /\ one_hot' = one_hot
           ELSE /\ codec_pc' = "one_hot"
                /\ one_hot' = r.vector
    /\ UNCHANGED <<ds_vars, pp_vars, gd_vars, it_vars, gn_vars>>
    /\ UNCHANGED <<config, event_value_ranges, event_dimensions, event_ranges,
                   event, event_id, id_event, one_hot_event>>

\* cli.py 533-535 (_decode): the one-hot vector decoded back to an Event.
DecodeOneHot ==
    /\ codec_pc = "one_hot"
    /\ one_hot_event' = one_hot_vector_as_event(one_hot, event_ranges, event_value_ranges)
    /\ codec_pc' = "done"
    /\ UNCHANGED <<ds_vars, pp_vars, gd_vars, it_vars, gn_vars>>
    /\ UNCHANGED <<config, event_value_ranges, event_dimensions, event_ranges,
                   event, event_id, id_event, one_hot>>

NextCodec ==
    \/ ComputeRanges
    \/ EncodeAsInt
    \/ DecodeId
    \/ EncodeOneHot
    \/ DecodeOneHot

SpecCodec == InitCodec /\ [][NextCodec]_vars

(***************************************************************************)
(* Claims about the vocabulary and the codec, checked under SpecCodec.     *)
(***************************************************************************)
InRange(id, range) == range.start <= id /\ id < range.end

\* C3: for every valid Event e (0 <= value < bin_count(kind)), decoding the
\* integer id of e gives back e and decoding the one-hot vector of e gives back
\* e, where the id of e is ranges[e.type].start + e.value; neither path raises.
C3_RoundTrip ==
    ValidEvent(event, DimensionsOf(config)) =>
        /\ codec_pc \in {"encoded", "decoded", "one_hot", "done"} =>
              event_id = event_ranges[event.type].start + event.value
        /\ codec_pc \in {"decoded", "one_hot", "done"} => id_event = event
        /\ codec_pc \in {"one_hot", "done"} =>
              /\ IsOneHot(one_hot, get_one_hot_size(event_ranges))
              /\ one_hot[event_id + 1] = 1
        /\ codec_pc = "done" => one_hot_event = event
        /\ codec_pc \notin {"EncodingError", "DecodingError"}

\* A valid TIME_SHIFT Event that is not the first of its interval has gone
\* through both round trips.
C3_Witness ==
    /\ codec_pc = "done"
    /\ event = [type |-> "TIME_SHIFT", value |-> 1]
    /\ id_event = event
    /\ one_hot_event = event

\* C4: for every valid configuration the EventRanges are half-open intervals
\* laid out in the canonical kind order, each as long as its kind's dimension,
\* pairwise disjoint, with union exactly [0, total_dimension), where
\* total_dimension is the one-hot size of get_model_event_dimensions and the
\* sum of the per-kind dimensions.
C4_RangePartition ==
    codec_pc # "start" =>
        LET total == get_model_event_dimensions(config)
            n == Len(EventTypes)
        IN  /\ event_ranges[EventTypes[1]].start = 0
            /\ \A i \in 2..n :
                  event_ranges[EventTypes[i]].start = event_ranges[EventTypes[i - 1]].end
            /\ \A k \in EventTypeSet :
                  /\ event_ranges[k].end - event_ranges[k].start = event_dimensions[k]
                  /\ 0 <= event_ranges[k].start
                  /\ event_ranges[k].start < event_ranges[k].end
                  /\ event_ranges[k].end <= total
            /\ \A k1, k2 \in EventTypeSet :
                  k1 # k2 => ~ \E id \in 0..(total - 1) :
                                 InRange(id, event_ranges[k1]) /\ InRange(id, event_ranges[k2])
            /\ \A id \in 0..(total - 1) : \E k \in EventTypeSet : InRange(id, event_ranges[k])
            /\ total = DimensionsBefore(event_dimensions, n)
            /\ total = get_one_hot_size(event_ranges)

\* The ranges of a configuration with more than one time step and velocity bin
\* have been computed.
C4_Witness ==
    /\ codec_pc = "ranges"
    /\ config.max_time_steps = 2
    /\ config.velocity_bins = 2
    /\ event_ranges["VELOCITY_CHANGE"] = [start |-> 2 * PitchCount + 2, end |-> 2 * PitchCount + 4]

\* C5: the id returned for an Event lies in the interval of the Event's own
\* kind; an Event whose value would place the id outside that interval gets no
\* id (EncodingError).
C5_IdInsideOwnRange ==
    codec_pc = "encoded" => InRange(event_id, event_ranges[event.type])

(***************************************************************************)
(* Windowing extractor and dataset loader (music_rnn.py 134-249).          *)
(***************************************************************************)
\* The configuration the stored files were preprocessed with.
DatasetConfig == [time_step_increment |-> 1, max_time_steps |-> 2, velocity_bins |-> 2]

\* Ids the stored streams are made of: the first and the last id of every kind
\* of DatasetConfig.
IdPool == <<0, 127, 128, 255, 256, 257, 258, 259>>

\* Where in IdPool a stored stream may begin.
StreamOffsets == {0, 3}

\* A stored stream of a given length: consecutive ids of IdPool (cyclically).
StoredStream(length, offset) ==
    [i \in 1..length |-> IdPool[((offset + i - 1) % Len(IdPool)) + 1]]

StoredStreams ==
    {StoredStream(length, offset) : length \in 0..MaxStreamLength, offset \in StreamOffsets}

RECURSIVE SeqsUpTo(_, _)
\* All sequences of at most n elements of S.
SeqsUpTo(S, n) ==
    IF n = 0 THEN {<<>>}
    ELSE LET shorter == SeqsUpTo(S, n - 1)
         IN  shorter \cup {Append(q, x) : q \in shorter, x \in S}

\* IntegerEncodedEventSequence.event_ids_from_file: the ids of the file and the
\* value ranges and ranges stored with them.
event_ids_from_file(filepath) ==
    LET r == get_event_sequence_ranges(DatasetConfig)
    IN  <<filepath, r[1], r[3]>>

\* A wrong sequence count: the last full chunk is left out.
sequence_count_without_last(event_ids, window) ==
    IF Len(event_ids) \div (window + 1) = 0 THEN 0
    ELSE Len(event_ids) \div (window + 1) - 1

\* music_rnn.py 192-193: the number of chunks of window_size + 1 events.
sequence_count(event_ids, window) == Len(event_ids) \div (window + 1)

\* A wrong loop body: the chunks advance by window_size only, so the label of a
\* chunk is the first input of the next one.
extract_sequence_overlapping(event_ids, ranges, value_ranges, window, i) ==
    LET start == i * window
        end == start + window + 1
        input_events == SubSeq(event_ids, start + 1, end - 1)
        x == [j \in 1..window |-> <<input_events[j]>>]
        ev == id_to_event(event_ids[end], ranges, value_ranges)
        y == event_as_one_hot_vector(ev, ranges, value_ranges).vector
    IN  [x |-> x, y |-> y]

\* music_rnn.py 195-206: the body of the loop, the tuple of chunk i (0-based).
\* x has shape (window_size, 1); y is the one-hot vector of the chunk's last id.
extract_sequence(event_ids, ranges, value_ranges, window, i) ==
    LET extract_events_count == window + 1
        start == i * extract_events_count
        end == extract_events_count * (i + 1)
        input_events == SubSeq(event_ids, start + 1, end - 1)
        x == [j \in 1..window |-> <<input_events[j]>>]
        ev == id_to_event(event_ids[end], ranges, value_ranges)
        y == event_as_one_hot_vector(ev, ranges, value_ranges).vector
    IN  [x |-> x, y |-> y]

\* music_rnn.py 175-206: all tuples of one file, in the order they are yielded.
_get_sequences_from_file(filepath, window) ==
    LET f == event_ids_from_file(filepath)
        event_ids == f[1]
    IN  [n \in 1..sequence_count(event_ids, window) |->
            extract_sequence(event_ids, f[3], f[2], window, n - 1)]

CodecIdle ==
    /\ codec_pc = "idle"
    /\ config = DatasetConfig
    /\ event = NoEvent
    /\ event_value_ranges = <<>>
    /\ event_dimensions = <<>>
    /\ event_ranges = <<>>
    /\ event_id = 0
    /\ id_event = NoEvent
    /\ one_hot = <<>>
    /\ one_hot_event = NoEvent

InitDataset ==
    /\ ds_pc = "call"
    /\ filepaths \in SeqsUpTo(StoredStreams, MaxFiles)
    /\ window_size \in 1..MaxWindowSize
    /\ use_generator \in BOOLEAN
    /\ output_event_dimensions = 0
    /\ data = <<>>
    /\ dataset = NoDataset
    /\ returned = NoDataset
    /\ CodecIdle
    /\ PreprocessIdle
    /\ GetDatasetIdle
    /\ IterationIdle
    /\ GenerateIdle

\* music_rnn.py 220-223: the one-hot size is read from the first file; an empty
\* file list has no first file.
ReadDimensions ==
    /\ ds_pc = "call"
    /\ IF Len(filepaths) = 0
       THEN /\ ds_pc' = "IndexError"
            /\ UNCHANGED output_event_dimensions
       ELSE /\ output_event_dimensions' = get_one_hot_size(event_ids_from_file(filepaths[1])[3])
            /\ ds_pc' = IF use_generator THEN "generator" ELSE "eager"
    /\ UNCHANGED <<filepaths, window_size, use_generator, data, dataset, returned>>
    /\ UNCHANGED <<codec_vars, pp_vars, gd_vars, it_vars, gn_vars>>

\* music_rnn.py 225-235: the lazy dataset over _generator; no file is read yet.
FromGenerator ==
    /\ ds_pc = "generator"
    /\ dataset' = [kind |-> "from_generator",
                   output_shapes |-> <<<<window_size, 1>>, <<output_event_dimensions>>>>,
                   args |-> <<filepaths, window_size>>,
                   prefetch |-> 0]
    /\ ds_pc' = "prefetch"
    /\ UNCHANGED <<filepaths, window_size, use_generator, output_event_dimensions, data, returned>>
    /\ UNCHANGED <<codec_vars, pp_vars, gd_vars, it_vars, gn_vars>>

\* music_rnn.py 237-241: the next file is read whole into memory.
LoadFile ==
    /\ ds_pc = "eager"
    /\ Len(data) < Len(filepaths)
    /\ data' = Append(data, _get_sequences_from_file(filepaths[Len(data) + 1], window_size))
    /\ UNCHANGED <<ds_pc, filepaths, window_size, use_generator, output_event_dimensions,
                   dataset, returned>>
    /\ UNCHANGED <<codec_vars, pp_vars, gd_vars, it_vars, gn_vars>>

\* music_rnn.py 242-246: all files are loaded; use_generator is false, so the
\* prefetch is skipped.
LoadDone ==
    /\ ds_pc = "eager"
    /\ Len(data) = Len(filepaths)
    /\ ds_pc' = "return"
    /\ UNCHANGED <<filepaths, window_size, use_generator, output_event_dimensions, data,
                   dataset, returned>>
    /\ UNCHANGED <<codec_vars, pp_vars, gd_vars, it_vars, gn_vars>>

\* prefetch_buffer_size, music_rnn.py 135
DefaultPrefetchBufferSize == 2

\* music_rnn.py 246-247
Prefetch ==
    /\ ds_pc = "prefetch"
    /\ dataset' = [dataset EXCEPT !.prefetch = DefaultPrefetchBufferSize]
    /\ ds_pc' = "return"
    /\ UNCHANGED <<filepaths, window_size, use_generator, output_event_dimensions, data, returned>>
    /\ UNCHANGED <<codec_vars, pp_vars, gd_vars, it_vars, gn_vars>>

\* music_rnn.py 249: return None
Return ==
    /\ ds_pc = "return"
    /\ returned' = NoDataset
    /\ ds_pc' = "returned"
    /\ UNCHANGED <<filepaths, window_size, use_generator, output_event_dimensions, data, dataset>>
    /\ UNCHANGED <<codec_vars, pp_vars, gd_vars, it_vars, gn_vars>>

NextDataset ==
    \/ ReadDimensions
    \/ FromGenerator
    \/ LoadFile
    \/ LoadDone
    \/ Prefetch
    \/ Return

SpecDataset == InitDataset /\ [][NextDataset]_vars

(***************************************************************************)
(* Claims about the windowing extractor and the loader, checked under      *)
(* SpecDataset.                                                            *)
(***************************************************************************)
\* The one-hot vector of an id: 1 at the id's coordinate (0-based), 0 elsewhere.
OneHotOf(id, width) == [i \in 1..width |-> IF i = id + 1 THEN 1 ELSE 0]

\* The stream positions (1-based) whose id occurs in a tuple, as an input or as
\* the label. The ids of a stored stream are pairwise different.
PositionsIn(tuple, event_ids) ==
    {p \in 1..Len(event_ids) :
        \/ \E j \in 1..Len(tuple.x) : tuple.x[j] = <<event_ids[p]>>
        \/ tuple.y[event_ids[p] + 1] = 1}

\* C1: a stream of length L under window size W >= 1 yields exactly
\* floor(L / (W + 1)) tuples; every x holds exactly W ids and every y is a
\* one-hot vector of width total_dimension; a stream with L < W + 1 yields none.
C1_WindowingCoverage ==
    \A k \in 1..Len(data) :
        LET L == Len(filepaths[k])
            total == get_model_event_dimensions(DatasetConfig)
        IN  /\ Len(data[k]) = L \div (window_size + 1)
            /\ L < window_size + 1 => data[k] = <<>>
            /\ \A n \in 1..Len(data[k]) :
                  /\ Len(data[k][n].x) = window_size
                  /\ \A j \in 1..window_size :
                        /\ Len(data[k][n].x[j]) = 1
                        /\ data[k][n].x[j][1] \in 0..(total - 1)
                  /\ IsOneHot(data[k][n].y, total)

\* A file of six ids has been loaded with window size 1 (three tuples) after a
\* file too short for one tuple.
C1_Witness ==
    /\ ds_pc = "eager"
    /\ window_size = 1
    /\ Len(data) = 2
    /\ Len(filepaths[1]) = 1
    /\ Len(filepaths[2]) = 6
    /\ Len(data[2]) = 3

\* C2: tuple number i (0-based) has x equal to the ids at stream positions
\* i*(W+1) .. i*(W+1)+W-1 in stream order and y equal to the one-hot vector of
\* the id at position i*(W+1)+W; every stream position feeds at most one tuple
\* and the trailing L mod (W+1) ids appear in no tuple.
C2_SequentialChunks ==
    \A k \in 1..Len(data) :
        LET ids == filepaths[k]
            L == Len(ids)
            W == window_size
            total == get_model_event_dimensions(DatasetConfig)
        IN  /\ \A n \in 1..Len(data[k]) :
                  LET i == n - 1
                  IN  /\ \A j \in 0..(W - 1) : data[k][n].x[j + 1] = <<ids[i * (W + 1) + j + 1]>>
                      /\ data[k][n].y = OneHotOf(ids[i * (W + 1) + W + 1], total)
            /\ \A p \in 1..L :
                  Cardinality({n \in 1..Len(data[k]) : p \in PositionsIn(data[k][n], ids)}) <= 1
            /\ \A p \in (L - (L % (W + 1)) + 1)..L :
                  \A n \in 1..Len(data[k]) : p \notin PositionsIn(data[k][n], ids)

\* A file of five ids has been loaded with window size 1: two chunks and one
\* trailing id.
C2_Witness ==
    /\ ds_pc = "eager"
    /\ window_size = 1
    /\ Len(data) = 1
    /\ filepaths[1] = StoredStream(5, 3)
    /\ Len(data[1]) = 2
    /\ data[1][2].x = <<<<257>>>>

\* C6: create_music_rnn_dataset hands a dataset back to its caller, with
\* use_generator true and with use_generator false; it never returns nothing.
C6_ReturnsDataset ==
    ds_pc = "returned" => returned # NoDataset

(***************************************************************************)
(* cli and preprocess (cli.py 37-105), with the worker pool of             *)
(* composer.dataset.preprocess (spec.md 4.5, 5).                           *)
(***************************************************************************)
\* The low 32 bits of int(time.time() * 1000.0); the masks of cli.py 52 drop the
\* bits above them.
ClockValues == {1, 16909060}

\* Values of --transform-percent and --test-percent, in percent.
TransformPercents == {50, 100}

TestPercents == {30, 50}

\* Values of --num-workers.
WorkerCounts == {1, 2}

\* Byte k (0: lowest) of t.
Byte(t, k) == (t \div (256 ^ k)) % 256

\* cli.py 52: the four low bytes of t in reverse order.
time_seed(t) ==
    Byte(t, 3) + Byte(t, 2) * 256 + Byte(t, 1) * 65536 + Byte(t, 0) * 16777216

\* numpy's global generator, reduced to a state in 0..RngModulus-1:
\* np.random.seed(s) sets the state from s, a draw moves it on and returns it,
\* np.random.get_state()[1][0] is the first word of the state.
random_seed(s) == s % RngModulus

random_draw(state) == (state + 1) % RngModulus

first_state_word(state) == state

RECURSIVE random_sample(_, _, _)
\* k of the items, drawn one after the other without replacement.
random_sample(state, items, k) ==
    IF k = 0 \/ Len(items) = 0
    THEN [picked |-> {}, state |-> state]
    ELSE LET drawn == random_draw(state)
             at == (drawn % Len(items)) + 1
             rest == [j \in 1..(Len(items) - 1) |-> IF j < at THEN items[j] ELSE items[j + 1]]
             more == random_sample(drawn, rest, k - 1)
         IN  [picked |-> {items[at]} \cup more.picked, state |-> more.state]

\* round(percent / 100 * n), halves rounded up.
Round(percent, n) == (percent * n + 50) \div 100

\* The three extra variants of a transformed file.
Variants == <<"pitch_shift", "time_stretch", "pitch_shift_time_stretch">>

\* The conversions of one file: the file itself and, when it is selected for
\* augmentation, its three variants.
FileTasks(f, subset, selected) ==
    <<[file |-> f, variant |-> "original", subset |-> subset]>>
    \o (IF selected
        THEN [v \in 1..Len(Variants) |-> [file |-> f, variant |-> Variants[v], subset |-> subset]]
        ELSE <<>>)

RECURSIVE PlanTasks(_, _, _)
\* The conversions of files 1..n in path order.
PlanTasks(n, test, selected) ==
    IF n = 0 THEN <<>>
    ELSE PlanTasks(n - 1, test, selected)
         \o FileTasks(n, IF n \in test THEN "test" ELSE "train", n \in selected)

\* composer.dataset.preprocess.split_dataset, up to the dispatch to the pool:
\* the test files and then the files to augment are drawn from the generator.
split_dataset(state, n, test_percent, transform, transform_percent) ==
    LET files == [f \in 1..n |-> f]
        test == random_sample(state, files, Round(test_percent, n))
        chosen == IF transform
                  THEN random_sample(test.state, files, Round(transform_percent, n))
                  ELSE [picked |-> {}, state |-> test.state]
    IN  [tasks |-> PlanTasks(n, test.picked, chosen.picked), state |-> chosen.state]

\* composer.dataset.preprocess.convert_all, up to the dispatch to the pool: it
\* is given no augmentation controls and converts every file once.
convert_all(state, n) ==
    [tasks |-> [f \in 1..n |-> [file |-> f, variant |-> "original", subset |-> "all"]],
     state |-> state]

\* cli.py 81-85: split_dataset when split is set, convert_all otherwise; only
\* split_dataset is handed transform and transform_percent.
planned_conversions(state, n, a) ==
    IF a.split
    THEN split_dataset(state, n, a.test_percent, a.transform, a.transform_percent)
    ELSE convert_all(state, n)

InitPreprocess ==
    /\ pp_pc = "cli"
    /\ seed_option \in {<<>>} \cup {<<s>> : s \in 0..MaxSeed}
    /\ seed = 0
    /\ random_state \in 0..(RngModulus - 1)
    /\ args \in [config_filepath : {None, "config.yml"},
                 transform : BOOLEAN,
                 transform_percent : TransformPercents,
                 split : BOOLEAN,
                 test_percent : TestPercents,
                 output_metadata : BOOLEAN,
                 num_workers : WorkerCounts]
    /\ input_files \in 0..MaxInputFiles
    /\ tasks = <<>>
    /\ next_task = 1
    /\ workers = <<>>
    /\ outputs = {}
    /\ metadata = NoMetadata
    /\ config_copy = FALSE
    /\ CodecIdle
    /\ DatasetIdle
    /\ GetDatasetIdle
    /\ IterationIdle
    /\ GenerateIdle

\* cli.py 41-55: the group callback. The seed is the option or is derived from
\* the clock; the generator is not touched.
Cli ==
    /\ pp_pc = "cli"
    /\ \/ /\ seed_option # <<>>
          /\ seed' = seed_option[1]
       \/ /\ seed_option = <<>>
          /\ \E t \in ClockValues : seed' = time_seed(t)
    /\ pp_pc' = "preprocess"
    /\ UNCHANGED <<seed_option, random_state, args, input_files, tasks, next_task, workers,
                   outputs, metadata, config_copy>>
    /\ UNCHANGED <<codec_vars, ds_vars, gd_vars, it_vars, gn_vars>>

\* cli.py 78-79: config_filepath or get_default_config(model_type); preprocess
\* has no model_type, so the right operand raises NameError.
LoadConfig ==
    /\ pp_pc = "preprocess"
    /\ pp_pc' = IF args.config_filepath = None THEN "NameError" ELSE "dispatch"
    /\ UNCHANGED <<seed_option, seed, random_state, args, input_files, tasks, next_task,
                   workers, outputs, metadata, config_copy>>
    /\ UNCHANGED <<codec_vars, ds_vars, gd_vars, it_vars, gn_vars>>

\* cli.py 81-85: the call of split_dataset or convert_all; the conversions are
\* planned in the calling thread and handed to num_workers workers.
Dispatch ==
    /\ pp_pc = "dispatch"
    /\ LET plan == planned_conversions(random_state, input_files, args)
       IN  /\ tasks' = plan.tasks
           /\ random_state' = plan.state
    /\ workers' = [w \in 1..args.num_workers |-> 0]
    /\ next_task' = 1
    /\ pp_pc' = "converting"
    /\ UNCHANGED <<seed_option, seed, args, input_files, outputs, metadata, config_copy>>
    /\ UNCHANGED <<codec_vars, ds_vars, gd_vars, it_vars, gn_vars>>

\* An idle worker takes the next conversion.
StartTask(w) ==
    /\ pp_pc = "converting"
    /\ workers[w] = 0
    /\ next_task <= Len(tasks)
    /\ workers' = [workers EXCEPT ![w] = next_task]
    /\ next_task' = next_task + 1
    /\ UNCHANGED <<pp_pc, seed_option, seed, random_state, args, input_files, tasks, outputs,
                   metadata, config_copy>>
    /\ UNCHANGED <<codec_vars, ds_vars, gd_vars, it_vars, gn_vars>>

\* A worker writes the output file of its conversion and becomes idle.
FinishTask(w) ==
    /\ workers[w] # 0
    /\ outputs' = outputs \cup {workers[w]}
    /\ workers' = [workers EXCEPT ![w] = 0]
    /\ UNCHANGED <<pp_pc, seed_option, seed, random_state, args, input_files, tasks, next_task,
                   metadata, config_copy>>
    /\ UNCHANGED <<codec_vars, ds_vars, gd_vars, it_vars, gn_vars>>

\* The pool is joined: split_dataset / convert_all returns when every
\* conversion is handed out and every worker is idle.
Join ==
    /\ pp_pc = "converting"
    /\ next_task > Len(tasks)
    /\ \A w \in DOMAIN workers : workers[w] = 0
    /\ pp_pc' = "converted"
    /\ UNCHANGED <<seed_option, seed, random_state, args, input_files, tasks, next_task,
                   workers, outputs, metadata, config_copy>>
    /\ UNCHANGED <<codec_vars, ds_vars, gd_vars, it_vars, gn_vars>>

\* A wrong order of preprocess: the manifest step does not wait for the call of
\* split_dataset / convert_all to return.
CallUnderWay == pp_pc \in {"converting", "converted"}

\* cli.py 81-87: the statements after the call run once the call has returned.
CallReturned == pp_pc = "converted"

\* A wrong early exit of preprocess: without output_metadata only the manifest
\* is skipped, and the configuration file is copied all the same.
SkipManifestOnly ==
    /\ CallReturned
    /\ ~args.output_metadata
    /\ pp_pc' = "metadata_written"
    /\ UNCHANGED <<seed_option, seed, random_state, args, input_files, tasks, next_task,
                   workers, outputs, metadata, config_copy>>
    /\ UNCHANGED <<codec_vars, ds_vars, gd_vars, it_vars, gn_vars>>

\* cli.py 87: if not output_metadata: return
ReturnWithoutMetadata ==
    /\ CallReturned
    /\ ~args.output_metadata
    /\ pp_pc' = "done"
    /\ UNCHANGED <<seed_option, seed, random_state, args, input_files, tasks, next_task,
                   workers, outputs, metadata, config_copy>>
    /\ UNCHANGED <<codec_vars, ds_vars, gd_vars, it_vars, gn_vars>>

\* cli.py 88-102: metadata.json, a dump of the settings of the run.
WriteMetadata ==
    /\ CallReturned
    /\ args.output_metadata
    /\ metadata' = [local_time |-> "now",
                    utc_time |-> "utcnow",
                    raw_dataset_path |-> "dataset_path",
                    output_directory |-> "output_directory",
                    transform |-> args.transform,
                    transform_percent |-> args.transform_percent,
                    split |-> args.split,
                    test_percent |-> args.test_percent,
                    seed |-> first_state_word(random_state)]
    /\ pp_pc' = "metadata_written"
    /\ UNCHANGED <<seed_option, seed, random_state, args, input_files, tasks, next_task,
                   workers, outputs, config_copy>>
    /\ UNCHANGED <<codec_vars, ds_vars, gd_vars, it_vars, gn_vars>>

\* cli.py 104-105: the configuration file is copied next to the manifest.
CopyConfig ==
    /\ pp_pc = "metadata_written"
    /\ config_copy' = TRUE
    /\ pp_pc' = "done"
    /\ UNCHANGED <<seed_option, seed, random_state, args, input_files, tasks, next_task,
                   workers, outputs, metadata>>
    /\ UNCHANGED <<codec_vars, ds_vars, gd_vars, it_vars, gn_vars>>

NextPreprocess ==
    \/ Cli
    \/ LoadConfig
    \/ Dispatch
    \/ \E w \in DOMAIN workers : StartTask(w)
    \/ \E w \in DOMAIN workers : FinishTask(w)
    \/ Join
    \/ ReturnWithoutMetadata
    \/ WriteMetadata
    \/ CopyConfig

SpecPreprocess == InitPreprocess /\ [][NextPreprocess]_vars

(***************************************************************************)
(* Claims about preprocess, checked under SpecPreprocess.                  *)
(***************************************************************************)
\* The conversions have been planned and handed to the pool.
Dispatched == pp_pc \in {"converting", "converted", "metadata_written", "done"}

\* The conversions that produce a variant of a file.
VariantTasks == {i \in 1..Len(tasks) : tasks[i].variant # "original"}

\* C7: whenever preprocess runs with transform = true, a transform_percent
\* fraction of the files gets three extra variants each, with split = true and
\* with split = false.
C7_TransformApplied ==
    (Dispatched /\ args.transform) =>
        Cardinality(VariantTasks) = 3 * Round(args.transform_percent, input_files)

\* C8: when the write of metadata.json starts, every conversion handed to the
\* pool has finished and its output is written, and no worker is converting
\* then or later.
C8_ManifestAfterJoin ==
    (pp_pc \in {"metadata_written", "done"} \/ metadata # NoMetadata) =>
        /\ next_task > Len(tasks)
        /\ outputs = 1..Len(tasks)
        /\ \A w \in DOMAIN workers : workers[w] = 0

\* The manifest is written after two workers converted two files and the three
\* variants of each.
C8_Witness ==
    /\ pp_pc = "metadata_written"
    /\ metadata # NoMetadata
    /\ args.num_workers = 2
    /\ Len(tasks) = 8
    /\ outputs = 1..8

\* C9: the generator is seeded in cli with the run's seed before the subcommand
\* draws from it, so the train/test assignment and the files selected for
\* augmentation are the ones the seed, the input files and the options determine.
C9_SeededReproducible ==
    /\ pp_pc \in {"preprocess", "dispatch"} => random_state = random_seed(seed)
    /\ Dispatched => tasks = planned_conversions(random_seed(seed), input_files, args).tasks

\* C10: the 'seed' field of metadata.json is the seed of the run, whatever
\* number of draws the split and augmentation steps made.
C10_ManifestSeed ==
    metadata # NoMetadata => metadata.seed = seed

\* C11: when preprocess is invoked without --config, the default configuration
\* of the model is loaded and the run goes on to convert the dataset; the
\* missing option is not an error.
C11_DefaultConfigLoaded ==
    args.config_filepath = None => pp_pc # "NameError"

\* C19: after a preprocess run that returns normally, metadata.json and
\* config.yml are written together or not at all: both exist when
\* output_metadata is true, neither with --no-metadata.
C19_ManifestAndConfigTogether ==
    pp_pc = "done" =>
        /\ (metadata # NoMetadata) <=> config_copy
        /\ args.output_metadata => (metadata # NoMetadata /\ config_copy)
        /\ ~args.output_metadata => (metadata = NoMetadata /\ ~config_copy)

\* A run with output_metadata has returned with both files written.
C19_Witness ==
    /\ pp_pc = "done"
    /\ args.output_metadata
    /\ metadata # NoMetadata
    /\ config_copy
    /\ Len(tasks) > 0

(***************************************************************************)
(* ModelType.get_dataset: one call on a preprocessed dataset directory.    *)
(* Files are numbered; a folder's listing is the order in which glob       *)
(* returns them, which need not be sorted.                                  *)
(***************************************************************************)
MaxListedFiles == 2

MaxMaxFiles == 3

Modes == {"train", "test", "validation"}

Listings ==
    {l \in SeqsUpTo(1..MaxListedFiles, MaxListedFiles) :
        \A i, j \in 1..Len(l) : i # j => l[i] # l[j]}

MissingFolder == [exists |-> FALSE, files |-> <<>>]

Folders == {MissingFolder} \cup {[exists |-> TRUE, files |-> l] : l \in Listings}

\* files[:max_files + 1]: one file more than asked for.
slice_to_inclusive(fs, m) ==
    SubSeq(fs, 1, IF m + 1 < Len(fs) THEN m + 1 ELSE Len(fs))

\* cli.py 236: files[:max_files], the slice of Python lists.
slice_to(fs, m) ==
    IF m >= 0
    THEN SubSeq(fs, 1, IF m < Len(fs) THEN m ELSE Len(fs))
    ELSE SubSeq(fs, 1, IF Len(fs) + m > 0 THEN Len(fs) + m ELSE 0)

\* spec.md 76: load_dataset(files, ...) -> (dataset, dimensions); the dataset
\* is made of the files it is given, in their order.
load_dataset(fs, generator) ==
    <<[kind |-> "Dataset", files |-> fs, use_generator |-> generator],
      get_model_event_dimensions(DatasetConfig)>>

InitGetDataset ==
    /\ gd_pc = "call"
    /\ mode \in Modes
    /\ dataset_path \in [train : Folders, test : Folders]
    /\ max_files \in {<<>>} \cup {<<m>> : m \in 0..MaxMaxFiles}
    /\ gd_use_generator \in BOOLEAN
    /\ gd_files = <<>>
    /\ fs_log = <<>>
    /\ gd_error = None
    /\ gd_returned = NoDataset
    /\ CodecIdle
    /\ DatasetIdle
    /\ PreprocessIdle
    /\ IterationIdle
    /\ GenerateIdle

\* cli.py 223-224: the mode is checked first.
CheckMode ==
    /\ gd_pc = "call"
    /\ IF mode \notin {"train", "test"}
       THEN /\ gd_error' = "InvalidParameterError"
            /\ gd_pc' = "raised"
       ELSE /\ gd_pc' = "mode_checked"
            /\ UNCHANGED gd_error
    /\ UNCHANGED <<mode, dataset_path, max_files, gd_use_generator, gd_files, fs_log,
                   gd_returned>>
    /\ UNCHANGED <<codec_vars, ds_vars, pp_vars, it_vars, gn_vars>>

\* cli.py 226-229: dataset_path / mode must exist.  The message of the
\* DatasetError is built with str.fromat, which no string has: evaluating the
\* argument raises AttributeError and the DatasetError is never constructed.
CheckFolder ==
    /\ gd_pc = "mode_checked"
    /\ fs_log' = Append(fs_log, "exists")
    /\ IF ~dataset_path[mode].exists
       THEN /\ gd_error' = "AttributeError"
            /\ gd_pc' = "raised"
       ELSE /\ gd_pc' = "folder_checked"
            /\ UNCHANGED gd_error
    /\ UNCHANGED <<mode, dataset_path, max_files, gd_use_generator, gd_files, gd_returned>>
    /\ UNCHANGED <<codec_vars, ds_vars, pp_vars, it_vars, gn_vars>>

\* cli.py 231: files = list(dataset_path.glob(...)).
ListFiles ==
    /\ gd_pc = "folder_checked"
    /\ gd_files' = dataset_path[mode].files
    /\ fs_log' = Append(fs_log, "glob")
    /\ gd_pc' = "listed"
    /\ UNCHANGED <<mode, dataset_path, max_files, gd_use_generator, gd_error, gd_returned>>
    /\ UNCHANGED <<codec_vars, ds_vars, pp_vars, it_vars, gn_vars>>

\* cli.py 234-251: function_map[self](files), the files cut to max_files and
\* handed to load_dataset, whose dataset is returned.
_load_music_rnn_dataset ==
    /\ gd_pc = "listed"
    /\ LET cut == IF max_files # <<>> THEN slice_to(gd_files, max_files[1]) ELSE gd_files
       IN  /\ gd_files' = cut
           /\ gd_returned' = load_dataset(cut, gd_use_generator)[1]
    /\ gd_pc' = "returned"
    /\ UNCHANGED <<mode, dataset_path, max_files, gd_use_generator, fs_log, gd_error>>
    /\ UNCHANGED <<codec_vars, ds_vars, pp_vars, it_vars, gn_vars>>

NextGetDataset ==
    \/ CheckMode
    \/ CheckFolder
    \/ ListFiles
    \/ _load_music_rnn_dataset

SpecGetDataset == InitGetDataset /\ [][NextGetDataset]_vars

\* C12: get_dataset with mode 'train' or 'test' on a dataset directory without
\* that subfolder raises DatasetError and loads no file; a mode outside
\* {'train', 'test'} raises InvalidParameterError before the directory is touched.
C12_ModeAndFolderErrors ==
    gd_pc = "raised" =>
        /\ mode \notin {"train", "test"} =>
              gd_error = "InvalidParameterError" /\ fs_log = <<>>
        /\ mode \in {"train", "test"} =>
              gd_error = "DatasetError" /\ gd_files = <<>> /\ gd_returned = NoDataset

\* C20: get_dataset with max_files = m loads exactly the first min(m, n) of the
\* n files found under the mode folder, in listing order; with max_files None
\* it loads all n.
C20_FirstFilesLoaded ==
    gd_pc = "returned" =>
        LET listing == dataset_path[mode].files
            n == Len(listing)
            count == IF max_files = <<>> THEN n
                     ELSE IF max_files[1] < n THEN max_files[1] ELSE n
        IN  /\ gd_returned.kind = "Dataset"
            /\ gd_returned.files = [i \in 1..count |-> listing[i]]

\* A folder listing file 2 before file 1, cut to its first file.
C20_Witness ==
    /\ gd_pc = "returned"
    /\ dataset_path[mode].files = <<2, 1>>
    /\ max_files = <<1>>
    /\ gd_returned.files = <<2>>

(***************************************************************************)
(* The two ways create_music_rnn_dataset reads a corpus, side by side on   *)
(* the same filepaths and window_size: the eager load (music_rnn.py        *)
(* 237-241) and passes of _generator (music_rnn.py 208-218) as the dataset *)
(* made by from_generator runs them, one call of _generator per pass.      *)
(* A file is named by the stream stored in it, so the str / bytes / utf-8  *)
(* passage of its path (music_rnn.py 215, 227) names the same file.        *)
(***************************************************************************)
MaxIterFiles == 2

MaxPasses == 2

\* The files of the corpora iterated: no tuple, one, and more than one tuple
\* at window_size 1.
IterationStreams == {StoredStream(0, 0), StoredStream(3, 0), StoredStream(5, 3)}

\* A wrong outer loop: the files are visited from the last to the first.
filepath_from_end(paths, k) == paths[Len(paths) + 1 - k]

\* music_rnn.py 214: for filepath in filepaths, the k-th file visited.
filepath_at(paths, k) == paths[k]

InitIteration ==
    /\ ds_pc = "call"
    /\ filepaths \in SeqsUpTo(IterationStreams, MaxIterFiles)
    /\ window_size \in 1..MaxWindowSize
    /\ use_generator = FALSE
    /\ output_event_dimensions = 0
    /\ data = <<>>
    /\ dataset = NoDataset
    /\ returned = NoDataset
    /\ it_pc = "running"
    /\ it_file = 1
    /\ it_chunk = 0
    /\ yielded = <<>>
    /\ passes = 0
    /\ first_pass = <<>>
    /\ CodecIdle
    /\ PreprocessIdle
    /\ GetDatasetIdle
    /\ GenerateIdle

\* music_rnn.py 216-217 (and 194-206): the inner loop yields the next tuple of
\* the current file.
GeneratorYield ==
    /\ it_pc = "running"
    /\ it_file <= Len(filepaths)
    /\ LET sequences == _get_sequences_from_file(filepath_at(filepaths, it_file), window_size)
       IN  /\ it_chunk < Len(sequences)
           /\ yielded' = Append(yielded, [file |-> it_file, chunk |-> it_chunk,
                                          x |-> sequences[it_chunk + 1].x,
                                          y |-> sequences[it_chunk + 1].y])
    /\ it_chunk' = it_chunk + 1
    /\ UNCHANGED <<it_pc, it_file, passes, first_pass>>
    /\ UNCHANGED <<codec_vars, ds_vars, pp_vars, gd_vars, gn_vars>>

\* music_rnn.py 214: the inner loop is exhausted, the outer loop takes the next file.
GeneratorNextFile ==
    /\ it_pc = "running"
    /\ it_file <= Len(filepaths)
    /\ it_chunk = Len(_get_sequences_from_file(filepath_at(filepaths, it_file), window_size))
    /\ it_file' = it_file + 1
    /\ it_chunk' = 0
    /\ UNCHANGED <<it_pc, yielded, passes, first_pass>>
    /\ UNCHANGED <<codec_vars, ds_vars, pp_vars, gd_vars, gn_vars>>

\* music_rnn.py 214-218: the outer loop is exhausted and _generator returns.
GeneratorStop ==
    /\ it_pc = "running"
    /\ it_file > Len(filepaths)
    /\ it_pc' = "exhausted"
    /\ passes' = passes + 1
    /\ first_pass' = IF passes = 0 THEN yielded ELSE first_pass
    /\ UNCHANGED <<it_file, it_chunk, yielded>>
    /\ UNCHANGED <<codec_vars, ds_vars, pp_vars, gd_vars, gn_vars>>

\* A wrong restart: the new pass resumes at the last file of the list.
GeneratorRestartAtLastFile ==
    /\ it_pc = "exhausted"
    /\ passes < MaxPasses
    /\ it_pc' = "running"
    /\ it_file' = IF Len(filepaths) = 0 THEN 1 ELSE Len(filepaths)
    /\ it_chunk' = 0
    /\ yielded' = <<>>
    /\ UNCHANGED <<passes, first_pass>>
    /\ UNCHANGED <<codec_vars, ds_vars, pp_vars, gd_vars, gn_vars>>

\* music_rnn.py 230-235: from_generator calls _generator(filepaths, window_size)
\* anew for every pass over the dataset.
GeneratorRestart ==
    /\ it_pc = "exhausted"
    /\ passes < MaxPasses
    /\ it_pc' = "running"
    /\ it_file' = 1
    /\ it_chunk' = 0
    /\ yielded' = <<>>
    /\ UNCHANGED <<passes, first_pass>>
    /\ UNCHANGED <<codec_vars, ds_vars, pp_vars, gd_vars, gn_vars>>

NextIteration ==
    \/ ReadDimensions
    \/ LoadFile
    \/ LoadDone
    \/ GeneratorYield
    \/ GeneratorNextFile
    \/ GeneratorStop
    \/ GeneratorRestart

SpecIteration == InitIteration /\ [][NextIteration]_vars

\* C14: in generator mode the tuples are yielded in corpus-iteration order:
\* every tuple of file k before any tuple of file k + 1, files in the order of
\* the list given (never re-sorted), and within a file chunk 0, 1, 2, ...
C14_CorpusOrder ==
    /\ \A p \in 1..Len(yielded) :
          LET t == yielded[p]
              sequences == _get_sequences_from_file(filepaths[t.file], window_size)
          IN  /\ t.file \in 1..Len(filepaths)
              /\ t.chunk < Len(sequences)
              /\ t.x = sequences[t.chunk + 1].x
              /\ t.y = sequences[t.chunk + 1].y
              /\ t.chunk = Cardinality({q \in 1..(p - 1) : yielded[q].file = t.file})
              /\ \A q \in 1..(p - 1) : yielded[q].file <= t.file
    /\ it_pc = "exhausted" =>
          \A k \in 1..Len(filepaths) :
              Cardinality({p \in 1..Len(yielded) : yielded[p].file = k})
                  = sequence_count(filepaths[k], window_size)

\* A pass over a list that is not sorted (the longer stream, of larger ids,
\* comes first) has yielded the two tuples of its first file, then the tuple
\* of its second file.
C14_Witness ==
    /\ it_pc = "exhausted"
    /\ filepaths = <<StoredStream(5, 3), StoredStream(3, 0)>>
    /\ window_size = 1
    /\ Len(yielded) = 3
    /\ yielded[2].file = 1 /\ yielded[2].chunk = 1
    /\ yielded[3].file = 2 /\ yielded[3].chunk = 0

RECURSIVE Concatenated(_)
\* The per-file lists of the eager load, joined in the order of the list.
Concatenated(lists) ==
    IF Len(lists) = 0 THEN <<>>
    ELSE Concatenated(SubSeq(lists, 1, Len(lists) - 1)) \o lists[Len(lists)]

\* The (x, y) tuples of a pass, as the generator hands them out.
TuplesOf(pass) == [p \in 1..Len(pass) |-> [x |-> pass[p].x, y |-> pass[p].y]]

\* C15: for the same file list and window size the eager and the generator
\* mode expose the same windowed sequence: the per-file lists of the eager
\* load, concatenated, are one full pass of the generator; and a pass after a
\* restart yields the sequence of the first pass.
C15_EagerEqualsGenerator ==
    /\ (ds_pc = "return" /\ it_pc = "exhausted") => TuplesOf(yielded) = Concatenated(data)
    /\ it_pc = "exhausted" => yielded = first_pass

\* The eager load is complete and the second pass of the generator has ended,
\* on two files that both have tuples.
C15_Witness ==
    /\ ds_pc = "return"
    /\ it_pc = "exhausted"
    /\ passes = 2
    /\ Len(data) = 2
    /\ Len(data[1]) = 2
    /\ Len(data[2]) = 1
    /\ Len(yielded) = 3

(***************************************************************************)
(* composer generate MODEL_TYPE RESTOREDIR OUTPUT_FILEPATH (cli.py         *)
(* 494-557).  The network, its weights and the sampler belong to           *)
(* TensorFlow: a call into them either raises or gives a value of the      *)
(* shape the model was made with.  The input tensor x and the temperature  *)
(* only feed those calls and are not kept.                                 *)
(***************************************************************************)
MaxPromptEvents == 2

MaxPromptLength == 3

MaxGenerateLength == 2

\* config.model.window_size: below, equal to, and above the one-hot size of
\* the dataset section.
GenerateWindowSizes ==
    {2, get_model_event_dimensions(DatasetConfig), get_model_event_dimensions(DatasetConfig) + 40}

GenerateConfigs ==
    {[model |-> [window_size |-> w, lstm_layers_count |-> 3], dataset |-> DatasetConfig] :
        w \in GenerateWindowSizes}

\* The events a prompt is made of: the first NOTE_ON, the first NOTE_OFF and the
\* last VELOCITY_CHANGE of the dataset section.
PromptEventPool ==
    LET r == get_event_sequence_ranges(DatasetConfig)
    IN  {id_to_event(id, r[3], r[1]) : id \in {0, 128, get_one_hot_size(r[3]) - 1}}

Prompts ==
    {NoPrompt} \cup
    {[given |-> TRUE, events |-> es] : es \in SeqsUpTo(PromptEventPool, MaxPromptEvents)}

\* music_rnn.py 25-26, 105: the first three parameters of MusicRNN.__init__;
\* the output layer is Dense(output_event_dimensions).
MusicRNN(input_dimensions, output_dimensions, window) ==
    [kind |-> "MusicRNN",
     input_event_dimensions |-> input_dimensions,
     output_event_dimensions |-> output_dimensions,
     window_size |-> window]

\* cli.py 177-195: ModelType.create_model; the arguments are positional.
create_model(cfg) ==
    LET dims == get_model_event_dimensions(cfg.dataset)
    IN  <<MusicRNN(dims, cfg.model.window_size, cfg.model.lstm_layers_count), dims>>

\* events[-prompt_length:]: the end of the prompt instead of its start.
prompt_suffix(es, n) ==
    SubSeq(es, IF n < Len(es) THEN Len(es) - n + 1 ELSE 1, Len(es))

\* cli.py 527: event_sequence.events[:prompt_length]
prompt_prefix(es, n) == slice_to(es, n)

\* A wrong vector: the 1 is set one coordinate after the sampled id.
one_hot_after(predicted_id, size) ==
    [j \in 1..size |-> IF j = ((predicted_id + 1) % size) + 1 THEN 1 ELSE 0]

\* cli.py 549-550: np.zeros(vector_size) with coordinate predicted_id set to 1.
one_hot_at(predicted_id, size) ==
    [j \in 1..size |-> IF j = predicted_id + 1 THEN 1 ELSE 0]

\* cli.py 547: tf.random.categorical over the outputs of the model gives a
\* class index below the width of the output layer: the first and the last.
SampledIds(width) == {0, width - 1}

InitGenerate ==
    /\ gn_pc = "call"
    /\ gn_config \in GenerateConfigs
    /\ model = NoModel
    /\ gn_dimensions = 0
    /\ prompt \in Prompts
    /\ prompt_length \in 0..MaxPromptLength
    /\ generate_length \in 0..MaxGenerateLength
    /\ gn_events = <<>>
    /\ vector_size = 0
    /\ gn_i = 0
    /\ decode_arg = NoDecode
    /\ gn_output = NotWritten
    /\ CodecIdle
    /\ DatasetIdle
    /\ PreprocessIdle
    /\ GetDatasetIdle
    /\ IterationIdle
\* cli.py 514-519: the configuration is read, the model is made by
\* create_model, compiled, restored from the checkpoint and built.
CreateModel ==
    /\ gn_pc = "call"
    /\ \E outcome \in {"built", "raised"} :
          IF outcome = "built"
          THEN /\ model' = create_model(gn_config)[1]
               /\ gn_dimensions' = create_model(gn_config)[2]
               /\ gn_pc' = "model"
          ELSE /\ gn_pc' = "TensorFlowError"
               /\ UNCHANGED <<model, gn_dimensions>>
    /\ UNCHANGED <<gn_config, prompt, prompt_length, generate_length, gn_events, vector_size,
                   gn_i, decode_arg, gn_output>>
    /\ UNCHANGED <<codec_vars, ds_vars, pp_vars, gd_vars, it_vars>>

\* cli.py 521-522: if prompt is None: raise NotImplementedError()
CheckPrompt ==
    /\ gn_pc = "model"
    /\ gn_pc' = IF ~prompt.given THEN "NotImplementedError" ELSE "prompt"
    /\ UNCHANGED <<gn_config, model, gn_dimensions, prompt, prompt_length, generate_length,
                   gn_events, vector_size, gn_i, decode_arg, gn_output>>
    /\ UNCHANGED <<codec_vars, ds_vars, pp_vars, gd_vars, it_vars>>

\* cli.py 524-541: the prompt is read and cut to prompt_length, its events are
\* encoded into x, vector_size is taken from the event ranges of the sequence.
PreparePrompt ==
    /\ gn_pc = "prompt"
    /\ gn_events' = prompt_prefix(prompt.events, prompt_length)
    /\ vector_size' = get_one_hot_size(get_event_sequence_ranges(gn_config.dataset)[3])
    /\ gn_pc' = "loop"
    /\ UNCHANGED <<gn_config, model, gn_dimensions, prompt, prompt_length, generate_length,
                   gn_i, decode_arg, gn_output>>
    /\ UNCHANGED <<codec_vars, ds_vars, pp_vars, gd_vars, it_vars>>

\* cli.py 542-553: one iteration of the loop.  predicted_vector[predicted_id]
\* raises IndexError when the id is not below vector_size; otherwise the vector
\* is decoded and the event appended.
Iterate ==
    /\ gn_pc = "loop"
    /\ gn_i < generate_length
    /\ \/ /\ gn_pc' = "TensorFlowError"
          /\ UNCHANGED <<gn_events, gn_i, decode_arg>>
       \/ \E predicted_id \in SampledIds(model.output_event_dimensions) :
             IF predicted_id >= vector_size
             THEN /\ gn_pc' = "IndexError"
                  /\ UNCHANGED <<gn_events, gn_i, decode_arg>>
             ELSE LET r == get_event_sequence_ranges(gn_config.dataset)
                      predicted_vector == one_hot_at(predicted_id, vector_size)
                      decoded == one_hot_vector_as_event(predicted_vector, r[3], r[1])
                  IN  /\ decode_arg' = [called |-> TRUE, vector |-> predicted_vector,
                                        predicted_id |-> predicted_id]
                      /\ IF IsRaised(decoded)
                         THEN /\ gn_pc' = "DecodingError"
                              /\ UNCHANGED <<gn_events, gn_i>>
                         ELSE /\ gn_events' = Append(gn_events, decoded)
                              /\ gn_i' = gn_i + 1
                              /\ UNCHANGED gn_pc
    /\ UNCHANGED <<gn_config, model, gn_dimensions, prompt, prompt_length, generate_length,
                   vector_size, gn_output>>
    /\ UNCHANGED <<codec_vars, ds_vars, pp_vars, gd_vars, it_vars>>

\* cli.py 555-557: the loop is over, the sequence is written as MIDI.
WriteOutput ==
    /\ gn_pc = "loop"
    /\ gn_i = generate_length
    /\ gn_output' = [written |-> TRUE, events |-> gn_events]
    /\ gn_pc' = "written"
    /\ UNCHANGED <<gn_config, model, gn_dimensions, prompt, prompt_length, generate_length,
                   gn_events, vector_size, gn_i, decode_arg>>
    /\ UNCHANGED <<codec_vars, ds_vars, pp_vars, gd_vars, it_vars>>

NextGenerate ==
    \/ CreateModel
    \/ CheckPrompt
    \/ PreparePrompt
    \/ Iterate
    \/ WriteOutput

SpecGenerate == InitGenerate /\ [][NextGenerate]_vars

\* C13: generate without --prompt creates a random prompt and goes on to
\* write the output; a missing prompt does not abort the run.
C13_RandomPromptCreated ==
    ~prompt.given => gn_pc # "NotImplementedError"

\* C16: in every iteration of the generate loop the vector handed to
\* one_hot_vector_as_event is a valid one-hot vector of width total_dimension
\* (the one-hot size of the prompt's event ranges), with its 1 at the id that
\* was sampled; a raw prediction vector is never decoded.
C16_DecodesOneHot ==
    decode_arg.called =>
        /\ IsOneHot(decode_arg.vector, get_model_event_dimensions(gn_config.dataset))
        /\ decode_arg.vector[decode_arg.predicted_id + 1] = 1

\* The second iteration has decoded the vector of the last id of the vocabulary.
C16_Witness ==
    /\ gn_i = 2
    /\ decode_arg.called
    /\ decode_arg.predicted_id = get_model_event_dimensions(gn_config.dataset) - 1
    /\ gn_events[Len(gn_events)].type = "VELOCITY_CHANGE"

\* C17: the model made by ModelType.create_model has an output layer of width
\* total_dimension, the value of get_model_event_dimensions, so that every
\* sampled id lies in [0, total_dimension) and is decoded without error.
C17_OutputWidth ==
    model # NoModel =>
        /\ model.output_event_dimensions = gn_dimensions
        /\ gn_pc \notin {"IndexError", "DecodingError"}

\* C18: generate keeps the prompt as an unchanged prefix and appends exactly one
\* decoded event per iteration: after k iterations the sequence holds
\* min(prompt_length, P) + k events, the first min(prompt_length, P) being the
\* first events of the prompt in order; the written sequence holds
\* min(prompt_length, P) + generate_length events.
C18_PromptPrefixKept ==
    LET P == Len(prompt.events)
        kept == IF prompt_length < P THEN prompt_length ELSE P
    IN  /\ vector_size > 0 =>
              /\ Len(gn_events) = kept + gn_i
              /\ \A j \in 1..kept : gn_events[j] = prompt.events[j]
        /\ gn_pc = "written" =>
              /\ gn_i = generate_length
              /\ gn_output.written
              /\ gn_output.events = gn_events
              /\ Len(gn_output.events) = kept + generate_length

\* A prompt of two different events cut to its first event, with two generated
\* events after it, has been written.
C18_Witness ==
    /\ gn_pc = "written"
    /\ Len(prompt.events) = 2
    /\ prompt.events[1] # prompt.events[2]
    /\ prompt_length = 1
    /\ generate_length = 2
    /\ Len(gn_output.events) = 3
    /\ gn_output.events[1] = prompt.events[1]

====
